---- MODULE Spec2Model ----
(***************************************************************************)
(* EventsLoader.LoadAndVerify of gomatrixserverlib (load.go): the          *)
(* receipt-time validation pipeline for federated events.  One call takes  *)
(* a batch of raw events through parsing (per event), batched signature    *)
(* verification, and per-event auth-chain and state-authorization checks,  *)
(* and returns one EventLoadResult per input position.                     *)
(*                                                                         *)
(* The collaborators (the parser, the signature verifier, the auth-chain   *)
(* verifier and the state verifier) are outside load.go: what they return  *)
(* is an input of the action that models the call site.                    *)
(***************************************************************************)
EXTENDS Integers, Sequences, FiniteSets, TLC

\* Longest batch of raw events a call is given.
MaxLen == 2

\* The raw messages a caller may submit: two well-formed ones and one that
\* does not parse.
RawMessages == {"g1", "g2", "bad"}
Malformed == {"bad"}

RoomVersions == {"v10"}

\* The raw messages whose event the current state of the room (its forward
\* extremities) does not authorize.
DivergesFromCurrentState == {"g2"}

----------------------------------------------------------------------------
\* Values.  Every value is a record with a kind, so that nil and non-nil
\* values of one Go type can be compared.

NilError == [kind |-> "nil"]
ParseError(raw) == [kind |-> "error", stage |-> "parse", of |-> raw]
SigError(pos) == [kind |-> "error", stage |-> "sig", pos |-> pos]
ChainError(ev) == [kind |-> "error", stage |-> "chain", of |-> ev.raw]
StateError(ev) == [kind |-> "error", stage |-> "state", of |-> ev.raw]
\* A failure of the key ring as a whole (VerifyEventSignatures' own error).
InfraError == [kind |-> "error", stage |-> "infra"]
\* ctx.Err() once the context is cancelled.
CtxError == [kind |-> "error", stage |-> "ctx"]
\* The fmt.Errorf of the length check.
MismatchError(nf, ne) ==
    [kind |-> "error", stage |-> "mismatch", failures |-> nf, events |-> ne]

\* The zero value of Event, and a parsed event.
ZeroEvent == [kind |-> "event", raw |-> ""]
ParsedEvent(raw) == [kind |-> "event", raw |-> raw]

NilHeadered == [kind |-> "nilptr"]
Headered(ev, ver) == [kind |-> "headered", event |-> ev, roomVer |-> ver]

\* EventLoadResult and its zero value.
EventLoadResult(ev, err, soft) == [Event |-> ev, Error |-> err, SoftFail |-> soft]
ZeroResult == EventLoadResult(NilHeadered, NilError, FALSE)

NilSlice == [nil |-> TRUE, elems |-> <<>>]
Slice(s) == [nil |-> FALSE, elems |-> s]

NoPrev == [kind |-> "none"]
NoReturn == [kind |-> "none"]
Return(res, err) == [kind |-> "return", results |-> res, err |-> err]

\* NewEventFromUntrustedJSON: a pure function of the raw message and the
\* room version; it yields an event or an error.
NewEventFromUntrustedJSON(raw, ver) ==
    IF raw \in Malformed
    THEN [event |-> ZeroEvent, err |-> ParseError(raw)]
    ELSE [event |-> ParsedEvent(raw), err |-> NilError]

----------------------------------------------------------------------------
VARIABLES
    roomVer,                \* l.roomVer
    performSoftFailCheck,   \* l.performSoftFailCheck
    pc,                     \* where the call is
    ctxDone,                \* the call's context has been cancelled
    rawEvents,              \* the argument of the call
    results,                \* the local slice results
    events,                 \* the local slice events
    failures,               \* what VerifyEventSignatures returned
    i,                      \* the loop index (1-based)
    h,                      \* the loop body's headered event
    ret,                    \* what the call returned
    trace,                  \* every collaborator call and return of the call
    prev                    \* the call before this one, when two are compared

vars == <<roomVer, performSoftFailCheck, pc, ctxDone, rawEvents, results,
          events, failures, i, h, ret, trace, prev>>

\* What no step of a running call changes.
outside == <<roomVer, performSoftFailCheck, prev>>

N == Len(rawEvents)

Batches == UNION {[1..n -> RawMessages] : n \in 0..MaxLen}

\* What a collaborator that was handed ctx may return as its error.
ErrorsOf(e) == {NilError, e} \cup (IF ctxDone THEN {CtxError} ELSE {})

\* The verdict lists VerifyEventSignatures may return for n events: one of
\* any length from 0 to n+1, a verdict per position.
VerdictLists(n) ==
    UNION {{f \in [1..len -> {"ok", "fail", "ctx"}] :
               \A p \in 1..len : f[p] = "ctx" => ctxDone} : len \in 0..(n + 1)}
Verdict(v, p) ==
    CASE v = "ok" -> NilError
      [] v = "fail" -> SigError(p)
      [] OTHER -> CtxError
VerdictErrors(f) == [p \in 1..Len(f) |-> Verdict(f[p], p)]

\* What VerifyEventAuthChain and VerifyAuthRulesAtState may return for h.
ChainVerdicts == IF pc = "chainWait" THEN ErrorsOf(ChainError(h.event)) ELSE {}
StateVerdicts == IF pc = "stateWait" THEN ErrorsOf(StateError(h.event)) ELSE {}

\* A trace entry: the operation, the position it is about (0: the batch),
\* and the value handed over or returned.
Log(op, idx, val) == trace' = Append(trace, [op |-> op, i |-> idx, val |-> val])

----------------------------------------------------------------------------
Init ==
    /\ roomVer \in RoomVersions
    /\ performSoftFailCheck \in BOOLEAN
    /\ pc = "idle"
    /\ ctxDone = FALSE
    /\ rawEvents = <<>>
    /\ results = <<>>
    /\ events = <<>>
    /\ failures = <<>>
    /\ i = 0
    /\ h = NilHeadered
    /\ ret = NoReturn
    /\ trace = <<>>
    /\ prev = NoPrev

\* The call starts: results and events are made, zero-valued.
LoadAndVerify(raw) ==
    /\ pc \in {"idle", "done"}
    /\ rawEvents' = raw
    /\ results' = [p \in 1..Len(raw) |-> ZeroResult]
    /\ events' = [p \in 1..Len(raw) |-> ZeroEvent]
    /\ failures' = <<>>
    /\ i' = 1
    /\ h' = NilHeadered
    /\ ret' = NoReturn
    /\ ctxDone' = FALSE
    /\ trace' = <<>>
    /\ pc' = IF Len(raw) = 0 THEN "sigCall" ELSE "parse"
    /\ UNCHANGED outside

\* The caller cancels the context while the call is in flight.
Cancel ==
    /\ pc \notin {"idle", "done"}
    /\ ~ctxDone
    /\ ctxDone' = TRUE
    /\ UNCHANGED <<outside, pc, rawEvents, results, events, failures, i, h,
                   ret, trace>>

\* One iteration of the parse loop, after which the signature stage starts
\* without waiting for the rest of the batch.
ParseEventThenVerify ==
    /\ pc = "parse"
    /\ LET p == NewEventFromUntrustedJSON(rawEvents[i], roomVer) IN
         /\ IF p.err /= NilError
            THEN /\ results' = [results EXCEPT ![i] =
                                   EventLoadResult(NilHeadered, p.err, FALSE)]
                 /\ UNCHANGED events
            ELSE /\ events' = [events EXCEPT ![i] = p.event]
                 /\ UNCHANGED results
         /\ Log("parse", i, p.err)
    /\ i' = 1
    /\ pc' = "sigCall"
    /\ UNCHANGED <<outside, ctxDone, rawEvents, failures, h, ret>>

\* One iteration of the parse loop.
ParseEvent ==
    /\ pc = "parse"
    /\ LET p == NewEventFromUntrustedJSON(rawEvents[i], roomVer) IN
         /\ IF p.err /= NilError
            THEN /\ results' = [results EXCEPT ![i] =
                                   EventLoadResult(NilHeadered, p.err, FALSE)]
                 /\ UNCHANGED events
            ELSE /\ events' = [events EXCEPT ![i] = p.event]
                 /\ UNCHANGED results
         /\ Log("parse", i, p.err)
    /\ i' = IF i < N THEN i + 1 ELSE 1
    /\ pc' = IF i < N THEN "parse" ELSE "sigCall"
    /\ UNCHANGED <<outside, ctxDone, rawEvents, failures, h, ret>>

\* VerifyEventSignatures is called with the parsed events only.
SigCallParsedOnly ==
    /\ pc = "sigCall"
    /\ pc' = "sigWait"
    /\ Log("sig.call", 0, SelectSeq(events, LAMBDA e : e /= ZeroEvent))
    /\ UNCHANGED <<outside, ctxDone, rawEvents, results, events, failures,
                   i, h, ret>>

\* VerifyEventSignatures is called with the whole events slice.
SigCall ==
    /\ pc = "sigCall"
    /\ pc' = "sigWait"
    /\ Log("sig.call", 0, events)
    /\ UNCHANGED <<outside, ctxDone, rawEvents, results, events, failures,
                   i, h, ret>>

\* Where the loop over events goes after position idx: the next position,
\* or the return once the range is exhausted.
LoopNext(idx) == IF idx < N THEN "sigCheck" ELSE "return"

\* continue: on to the next event.
Continue ==
    /\ i' = i + 1
    /\ pc' = LoopNext(i)

\* return results, err: the results so far go out with the error.
AbortPartial(err) == Return(Slice(results), err)

\* return nil, err
Abort(err) == Return(NilSlice, err)

\* len(failures) < len(events): only a list that is too short is caught.
LengthMismatchShorter(f) == Len(f) < Len(events)

\* len(failures) != len(events)
LengthMismatch(f) == Len(f) /= Len(events)

\* VerifyEventSignatures returns (f, err): the two early returns, or the
\* loop over the events starts.
SigReturn(f, err) ==
    /\ pc = "sigWait"
    /\ Log("sig.ret", 0, [failures |-> f, err |-> err])
    /\ IF err /= NilError
       THEN /\ ret' = Abort(err)
            /\ pc' = "done"
            /\ UNCHANGED failures
       ELSE IF LengthMismatch(f)
       THEN /\ ret' = Abort(MismatchError(Len(f), Len(events)))
            /\ pc' = "done"
            /\ failures' = f
       ELSE /\ failures' = f
            /\ pc' = LoopNext(0)
            /\ UNCHANGED ret
    /\ i' = 1
    /\ UNCHANGED <<outside, ctxDone, rawEvents, results, events, h>>

\* The head of the loop body, with break in the place of continue.
SigCheckBreaks ==
    /\ pc = "sigCheck"
    /\ IF failures[i] /= NilError /\ results[i].Error = NilError
       THEN /\ results' = [results EXCEPT ![i] =
                              EventLoadResult(NilHeadered, failures[i], FALSE)]
            /\ i' = i + 1
            /\ pc' = "return"
       ELSE /\ pc' = "chainCall"
            /\ UNCHANGED <<results, i>>
    /\ UNCHANGED <<outside, ctxDone, rawEvents, events, failures, h, ret,
                   trace>>

\* The head of the loop body: the signature verdict of events[i].
SigCheck ==
    /\ pc = "sigCheck"
    /\ IF failures[i] /= NilError /\ results[i].Error = NilError
       THEN /\ results' = [results EXCEPT ![i] =
                              EventLoadResult(NilHeadered, failures[i], FALSE)]
            /\ Continue
       ELSE /\ pc' = "chainCall"
            /\ UNCHANGED <<results, i>>
    /\ UNCHANGED <<outside, ctxDone, rawEvents, events, failures, h, ret,
                   trace>>

\* h := events[i].Headered(l.roomVer), and VerifyEventAuthChain is called.
ChainCall ==
    /\ pc = "chainCall"
    /\ h' = Headered(events[i], roomVer)
    /\ pc' = "chainWait"
    /\ Log("chain.call", i, h')
    /\ UNCHANGED <<outside, ctxDone, rawEvents, results, events, failures,
                   i, ret>>

\* VerifyEventAuthChain returns err, and the error goes to the first slot.
ChainReturnWritesFirst(err) ==
    /\ pc = "chainWait"
    /\ Log("chain.ret", i, err)
    /\ IF err /= NilError /\ results[i].Error = NilError
       THEN /\ results' = [results EXCEPT ![1] =
                              EventLoadResult(NilHeadered, err, FALSE)]
            /\ Continue
       ELSE /\ pc' = "stateCall"
            /\ UNCHANGED <<results, i>>
    /\ UNCHANGED <<outside, ctxDone, rawEvents, events, failures, h, ret>>

\* VerifyEventAuthChain returns err.
ChainReturn(err) ==
    /\ pc = "chainWait"
    /\ Log("chain.ret", i, err)
    /\ IF err /= NilError /\ results[i].Error = NilError
       THEN /\ results' = [results EXCEPT ![i] =
                              EventLoadResult(NilHeadered, err, FALSE)]
            /\ Continue
       ELSE /\ pc' = "stateCall"
            /\ UNCHANGED <<results, i>>
    /\ UNCHANGED <<outside, ctxDone, rawEvents, events, failures, h, ret>>

\* VerifyAuthRulesAtState is called.
StateCall ==
    /\ pc = "stateCall"
    /\ pc' = "stateWait"
    /\ Log("state.call", i, h)
    /\ UNCHANGED <<outside, ctxDone, rawEvents, results, events, failures,
                   i, h, ret>>

\* VerifyAuthRulesAtState returns err, and err is not looked at.
StateReturnUnchecked(err) ==
    /\ pc = "stateWait"
    /\ Log("state.ret", i, err)
    /\ results' = [results EXCEPT ![i] = EventLoadResult(h, NilError, FALSE)]
    /\ Continue
    /\ UNCHANGED <<outside, ctxDone, rawEvents, events, failures, h, ret>>

\* VerifyAuthRulesAtState returns err, and an error ends the call.
StateReturnAborts(err) ==
    /\ pc = "stateWait"
    /\ Log("state.ret", i, err)
    /\ IF err /= NilError
       THEN /\ ret' = Abort(err)
            /\ pc' = "done"
            /\ UNCHANGED <<results, i>>
       ELSE /\ results' = [results EXCEPT ![i] =
                              EventLoadResult(h, NilError, FALSE)]
            /\ Continue
            /\ UNCHANGED ret
    /\ UNCHANGED <<outside, ctxDone, rawEvents, events, failures, h>>

\* VerifyAuthRulesAtState returns err, and a rejected event stays in Event.
StateReturnKeepsEvent(err) ==
    /\ pc = "stateWait"
    /\ Log("state.ret", i, err)
    /\ IF err /= NilError /\ results[i].Error = NilError
       THEN results' = [results EXCEPT ![i] = EventLoadResult(h, err, FALSE)]
       ELSE results' = [results EXCEPT ![i] =
                           EventLoadResult(h, NilError, FALSE)]
    /\ Continue
    /\ UNCHANGED <<outside, ctxDone, rawEvents, events, failures, h, ret>>

\* VerifyAuthRulesAtState returns err, and with performSoftFailCheck set an
\* accepted event that the current state does not authorize is soft-failed.
StateReturnSoftFails(err) ==
    /\ pc = "stateWait"
    /\ Log("state.ret", i, err)
    /\ IF err /= NilError /\ results[i].Error = NilError
       THEN results' = [results EXCEPT ![i] =
                           EventLoadResult(NilHeadered, err, FALSE)]
       ELSE results' = [results EXCEPT ![i] =
                           EventLoadResult(h, NilError,
                               performSoftFailCheck
                                   /\ h.event.raw \in DivergesFromCurrentState)]
    /\ Continue
    /\ UNCHANGED <<outside, ctxDone, rawEvents, events, failures, h, ret>>

\* VerifyAuthRulesAtState returns err; the loop body ends.
StateReturn(err) ==
    /\ pc = "stateWait"
    /\ Log("state.ret", i, err)
    /\ IF err /= NilError /\ results[i].Error = NilError
       THEN results' = [results EXCEPT ![i] =
                           EventLoadResult(NilHeadered, err, FALSE)]
       ELSE results' = [results EXCEPT ![i] =
                           EventLoadResult(h, NilError, FALSE)]
    /\ Continue
    /\ UNCHANGED <<outside, ctxDone, rawEvents, events, failures, h, ret>>

\* return results, nil
ReturnResults ==
    /\ pc = "return"
    /\ ret' = Return(Slice(results), NilError)
    /\ pc' = "done"
    /\ UNCHANGED <<outside, ctxDone, rawEvents, results, events, failures,
                   i, h, trace>>

Next ==
    \/ \E raw \in Batches : LoadAndVerify(raw)
    \/ Cancel
    \/ ParseEvent
    \/ SigCall
    \/ \E f \in VerdictLists(Len(events)) : SigReturn(VerdictErrors(f), NilError)
    \/ \E err \in ErrorsOf(InfraError) \ {NilError} : SigReturn(<<>>, err)
    \/ SigCheck
    \/ ChainCall
    \/ \E err \in ChainVerdicts : ChainReturn(err)
    \/ StateCall
    \/ \E err \in StateVerdicts : StateReturn(err)
    \/ ReturnResults

Spec == Init /\ [][Next]_vars

----------------------------------------------------------------------------
\* Two calls compared.  The loader is called on a batch, and then again on
\* the same batch with the raw event at one index k, which passed every
\* stage, replaced by another.  The
\* collaborators' verdicts depend only on the event at the position: in the
\* second call, a stage asked about a position other than k answers as it
\* did in the first call.  The collaborators work (no cancellation, one
\* signature verdict per event).

\* What stage op returned for position j in trace tr (for the signature
\* stage, its verdict at j), or NotCalled.
NotCalled == [kind |-> "notcalled"]
Answer(tr, op, j) ==
    IF op = "sig.ret"
    THEN IF \E n \in 1..Len(tr) : tr[n].op = op
         THEN LET n == CHOOSE n \in 1..Len(tr) : tr[n].op = op
              IN  tr[n].val.failures[j]
         ELSE NotCalled
    ELSE IF \E n \in 1..Len(tr) : tr[n].op = op /\ tr[n].i = j
         THEN LET n == CHOOSE n \in 1..Len(tr) : tr[n].op = op /\ tr[n].i = j
              IN  tr[n].val
         ELSE NotCalled

\* The verdict err of stage op at position j agrees with the first call.
AsBefore(op, j, err) ==
    IF prev = NoPrev THEN TRUE
    ELSE IF j = prev.k THEN TRUE
    ELSE Answer(prev.trace, op, j) \in {NotCalled, err}

\* The event at position j passed all four stages in trace tr.
PassedAll(tr, j) ==
    \A op \in {"parse", "sig.ret", "chain.ret", "state.ret"} :
        Answer(tr, op, j) = NilError

\* The second call: the batch of the first, in which the event at index k
\* was well-formed, with rawEvents[k] replaced by x.
LoadAndVerifyChanged(k, x) ==
    /\ pc = "done"
    /\ prev = NoPrev
    /\ k \in 1..N
    /\ PassedAll(trace, k)
    /\ x /= rawEvents[k]
    /\ prev' = [kind |-> "call", rawEvents |-> rawEvents, ret |-> ret,
                trace |-> trace, k |-> k]
    /\ rawEvents' = [rawEvents EXCEPT ![k] = x]
    /\ results' = [p \in 1..N |-> ZeroResult]
    /\ events' = [p \in 1..N |-> ZeroEvent]
    /\ failures' = <<>>
    /\ i' = 1
    /\ h' = NilHeadered
    /\ ret' = NoReturn
    /\ ctxDone' = FALSE
    /\ trace' = <<>>
    /\ pc' = "parse"
    /\ UNCHANGED <<roomVer, performSoftFailCheck>>

PairSigVerdicts ==
    {f \in [1..Len(events) -> {"ok", "fail"}] :
        \A j \in 1..Len(events) : AsBefore("sig.ret", j, Verdict(f[j], j))}

PairNext ==
    \/ \E raw \in Batches : pc = "idle" /\ LoadAndVerify(raw)
    \/ \E k \in 1..N : \E x \in RawMessages : LoadAndVerifyChanged(k, x)
    \/ ParseEvent
    \/ SigCall
    \/ \E f \in PairSigVerdicts : SigReturn(VerdictErrors(f), NilError)
    \/ SigCheck
    \/ ChainCall
    \/ \E err \in ChainVerdicts : AsBefore("chain.ret", i, err) /\ ChainReturn(err)
    \/ StateCall
    \/ \E err \in StateVerdicts : AsBefore("state.ret", i, err) /\ StateReturn(err)
    \/ ReturnResults

SpecPair == Init /\ [][PairNext]_vars

----------------------------------------------------------------------------
\* Two loaders compared.  A loader is called on a batch, and then a loader
\* that differs from it in performSoftFailCheck only is called on the same
\* batch; every stage answers the second call as it answered the first.
\* The signature stage may fail as a whole or return a list of the wrong
\* length; the context is not cancelled.

\* The second call: the other loader, on the same batch.
LoadAndVerifyOtherLoader ==
    /\ pc = "done"
    /\ prev = NoPrev
    /\ prev' = [kind |-> "call", rawEvents |-> rawEvents, ret |-> ret,
                trace |-> trace, k |-> 0,
                performSoftFailCheck |-> performSoftFailCheck]
    /\ performSoftFailCheck' = ~performSoftFailCheck
    /\ results' = [p \in 1..N |-> ZeroResult]
    /\ events' = [p \in 1..N |-> ZeroEvent]
    /\ failures' = <<>>
    /\ i' = 1
    /\ h' = NilHeadered
    /\ ret' = NoReturn
    /\ ctxDone' = FALSE
    /\ trace' = <<>>
    /\ pc' = IF N = 0 THEN "sigCall" ELSE "parse"
    /\ UNCHANGED <<roomVer, rawEvents>>

\* What VerifyEventSignatures returns: anything in the first call, and in
\* the second what it returned in the first.
FlagSigReturns ==
    IF prev = NoPrev
    THEN {[failures |-> VerdictErrors(f), err |-> NilError] :
             f \in VerdictLists(Len(events))}
         \cup {[failures |-> <<>>, err |-> InfraError]}
    ELSE {prev.trace[n].val : n \in {m \in 1..Len(prev.trace) :
                                       prev.trace[m].op = "sig.ret"}}

FlagNext ==
    \/ \E raw \in Batches : pc = "idle" /\ LoadAndVerify(raw)
    \/ LoadAndVerifyOtherLoader
    \/ ParseEvent
    \/ SigCall
    \/ \E r \in FlagSigReturns : SigReturn(r.failures, r.err)
    \/ SigCheck
    \/ ChainCall
    \/ \E err \in ChainVerdicts : AsBefore("chain.ret", i, err) /\ ChainReturn(err)
    \/ StateCall
    \/ \E err \in StateVerdicts : AsBefore("state.ret", i, err) /\ StateReturn(err)
    \/ ReturnResults

SpecFlag == Init /\ [][FlagNext]_vars

----------------------------------------------------------------------------
\* Properties of LoadAndVerify.

\* The call has returned (results, nil).
ReturnedResults == pc = "done" /\ ret.err = NilError
Out == ret.results.elems

Accepted(r) == r.Event /= NilHeadered /\ r.Error = NilError
Rejected(r) == r.Error /= NilError

\* The parser failed on the raw event at position j of this call.
ParseFailed(j) == Answer(trace, "parse", j) \notin {NotCalled, NilError}

\* The signature stage failed as a whole: it returned an error, or a verdict
\* list that is not one verdict per event.
SigStageFault ==
    \E n \in 1..Len(trace) :
        /\ trace[n].op = "sig.ret"
        /\ \/ trace[n].val.err /= NilError
           \/ Len(trace[n].val.failures) /= Len(rawEvents)

\* Stage op was called in this call.
Called(op) == \E n \in 1..Len(trace) : trace[n].op = op

\* C1: a call on N raw events returns either exactly N results and a nil
\* error, or a non-nil error and a nil slice; never a list of another length.
C1_LengthInvariant ==
    pc = "done" =>
        \/ /\ ret.err = NilError
           /\ ~ret.results.nil
           /\ Len(Out) = Len(rawEvents)
        \/ /\ ret.err /= NilError
           /\ ret.results = NilSlice

\* A call on two events returned two results and a nil error.
C1_Witness ==
    /\ ReturnedResults
    /\ Len(rawEvents) = 2
    /\ Len(Out) = 2

\* C2: the parse error recorded for a position stays that position's error:
\* from the parse step on, through the loop and in the returned list,
\* results[j].Error is the parse error of rawEvents[j].
C2_ParseErrorKept ==
    \A j \in 1..Len(results) :
        ParseFailed(j) =>
            /\ results[j].Error = ParseError(rawEvents[j])
            /\ results[j].Event = NilHeadered

\* C3: a returned result is accepted only if its event passed all four
\* stages in this call.
C3_AcceptedOnlyIfAllPassed ==
    ReturnedResults =>
        \A j \in 1..Len(Out) : Accepted(Out[j]) => PassedAll(trace, j)

\* The outcome the earliest failing of the three later stages decides, for a
\* parsed event at position j.
EarliestFailure(j) ==
    LET sig == Answer(trace, "sig.ret", j)
        chain == Answer(trace, "chain.ret", j)
        state == Answer(trace, "state.ret", j)
    IN  IF sig /= NilError THEN EventLoadResult(NilHeadered, sig, FALSE)
        ELSE IF chain /= NilError THEN EventLoadResult(NilHeadered, chain, FALSE)
        ELSE IF state /= NilError THEN EventLoadResult(NilHeadered, state, FALSE)
        ELSE EventLoadResult(Headered(ParsedEvent(rawEvents[j]), roomVer),
                             NilError, FALSE)

\* C4: for an event that parsed, the result is the error of the earliest
\* failing stage among signature, auth chain and state, and the headered
\* event exactly when none of the three failed.
C4_EarliestFailureDecides ==
    ReturnedResults =>
        \A j \in 1..Len(Out) :
            Answer(trace, "parse", j) = NilError => Out[j] = EarliestFailure(j)

\* Of two parsed events, one was rejected by the auth chain with a passing
\* signature, and the other was accepted.
C4_Witness ==
    /\ ReturnedResults
    /\ \E j \in 1..Len(Out) :
          /\ Answer(trace, "parse", j) = NilError
          /\ Answer(trace, "sig.ret", j) = NilError
          /\ Out[j].Error = ChainError(ParsedEvent(rawEvents[j]))
    /\ \E j \in 1..Len(Out) :
          /\ Answer(trace, "parse", j) = NilError
          /\ Accepted(Out[j])

\* The signature verifier returned a nil error and a verdict list of the
\* wrong length.
WrongLength ==
    \E n \in 1..Len(trace) :
        /\ trace[n].op = "sig.ret"
        /\ trace[n].val.err = NilError
        /\ Len(trace[n].val.failures) /= Len(rawEvents)

\* C5: a verdict list of the wrong length (with a nil error) ends the call
\* with an error and no results, and no auth-chain or state check is made.
C5_LengthMismatchAborts ==
    WrongLength =>
        /\ pc = "done"
        /\ ret.err /= NilError
        /\ ret.results = NilSlice
        /\ ~Called("chain.call")
        /\ ~Called("state.call")

\* Two events, three verdicts.
C5_Witness ==
    /\ WrongLength
    /\ pc = "done"
    /\ Len(rawEvents) = 2
    /\ ret.err = MismatchError(3, 2)

\* C6: the call ends with an error only on a fault of the signature stage;
\* whatever fails per event, it returns a nil error and the full list.
C6_OnlySigStageAborts ==
    pc = "done" =>
        /\ ret.err /= NilError <=> SigStageFault
        /\ ~SigStageFault => ~ret.results.nil /\ Len(Out) = Len(rawEvents)

\* Every event of a batch of two was rejected, one of them by the state
\* check, and the call returned results.
C6_Witness ==
    /\ ReturnedResults
    /\ Len(Out) = 2
    /\ \A j \in 1..2 : Rejected(Out[j])
    /\ \E j \in 1..2 : Out[j].Error.stage = "state"

\* C7: a call whose context was cancelled while it was in flight returns an
\* error and no results.
C7_CancelVoidsCall ==
    (pc = "done" /\ ctxDone) =>
        /\ ret.err /= NilError
        /\ ret.results = NilSlice

\* C8: of two calls on batches that differ only at index k, with per-position
\* verdicts that depend only on the event, both return a nil error and the
\* same result at every index but k.
C8_Independence ==
    pc = "done" =>
        /\ ret.err = NilError
        /\ prev /= NoPrev =>
              /\ prev.ret.err = NilError
              /\ \A j \in 1..Len(Out) :
                    j /= prev.k => Out[j] = prev.ret.results.elems[j]

\* The first event, well-formed in the first call, failed its signature
\* check in the second, and the event after it was accepted in both.
C8_Witness ==
    /\ pc = "done"
    /\ prev /= NoPrev
    /\ prev.k = 1
    /\ Len(Out) = 2
    /\ Out[1].Error = SigError(1)
    /\ Accepted(Out[2])
    /\ Accepted(prev.ret.results.elems[2])

\* C9: the result at index j is about the input at index j: an accepted one
\* wraps the event parsed from rawEvents[j], a rejected one carries the parse
\* error of rawEvents[j], the signature verdict at j, or the auth-chain or
\* state error returned for j.
C9_OrderPreserved ==
    ReturnedResults =>
        \A j \in 1..Len(Out) :
            LET parsed == NewEventFromUntrustedJSON(rawEvents[j], roomVer) IN
            /\ Accepted(Out[j]) =>
                  /\ parsed.err = NilError
                  /\ Out[j].Event = Headered(parsed.event, roomVer)
            /\ Rejected(Out[j]) =>
                  \/ parsed.err /= NilError /\ Out[j].Error = parsed.err
                  \/ Out[j].Error = Answer(trace, "sig.ret", j)
                  \/ Out[j].Error = Answer(trace, "chain.ret", j)
                  \/ Out[j].Error = Answer(trace, "state.ret", j)

\* C10: with performSoftFailCheck set, an event that passes all four stages
\* and that the current state of the room does not authorize is returned
\* accepted with SoftFail set.
C10_SoftFailFlagged ==
    (ReturnedResults /\ performSoftFailCheck) =>
        \A j \in 1..Len(Out) :
            (PassedAll(trace, j) /\ rawEvents[j] \in DivergesFromCurrentState) =>
                /\ Accepted(Out[j])
                /\ Out[j].SoftFail

\* The positions of the trace entries of operation op about position j.
Entries(op, j) == {n \in 1..Len(trace) : trace[n].op = op /\ trace[n].i = j}

\* C11: no later per-event stage is invoked for an event that has failed:
\* the event is headered and VerifyEventAuthChain called only if it parsed
\* and its signature verdict is nil, and VerifyAuthRulesAtState is called
\* only if, besides, VerifyEventAuthChain returned nil.
C11_ShortCircuit ==
    \A n \in 1..Len(trace) :
        LET j == trace[n].i IN
        /\ trace[n].op \in {"chain.call", "state.call"} =>
              /\ Answer(trace, "parse", j) = NilError
              /\ Answer(trace, "sig.ret", j) = NilError
        /\ trace[n].op = "state.call" =>
              Answer(trace, "chain.ret", j) = NilError

\* The calls of VerifyEventSignatures in the trace.
SigCalls == {n \in 1..Len(trace) : trace[n].op = "sig.call"}

\* The call has reached the signature stage.
PastSigCall == pc \notin {"idle", "parse", "sigCall"}

\* C12: VerifyEventSignatures is called exactly once per call, with one
\* entry per input position in input order: the zero Event where the parse
\* failed and the parsed event elsewhere.
C12_OneBatchedSigCall ==
    /\ Cardinality(SigCalls) = (IF PastSigCall THEN 1 ELSE 0)
    /\ \A n \in SigCalls :
          /\ Len(trace[n].val) = Len(rawEvents)
          /\ \A j \in 1..Len(rawEvents) :
                trace[n].val[j] =
                    IF Answer(trace, "parse", j) = NilError
                    THEN ParsedEvent(rawEvents[j])
                    ELSE ZeroEvent

\* The call returned after the signature stage was handed a placeholder and
\* a parsed event, in that order.
C12_Witness ==
    /\ pc = "done"
    /\ Len(rawEvents) = 2
    /\ ParseFailed(1)
    /\ \E n \in SigCalls : trace[n].val = <<ZeroEvent, ParsedEvent(rawEvents[2])>>

\* The place of an operation in the order of the stages.
Rank(op) ==
    CASE op = "parse" -> 1
      [] op = "sig.call" -> 2
      [] op = "sig.ret" -> 3
      [] op = "chain.call" -> 4
      [] op = "chain.ret" -> 5
      [] op = "state.call" -> 6
      [] op = "state.ret" -> 7

\* The return that ends a call.
ReturnOf(op) ==
    CASE op = "sig.call" -> "sig.ret"
      [] op = "chain.call" -> "chain.ret"
      [] op = "state.call" -> "state.ret"

\* C13: the stages run in order.  Every event of the batch is parsed before
\* VerifyEventSignatures is called; VerifyEventSignatures has returned
\* before any auth-chain or state check starts; an event's auth-chain check
\* has returned before its state check starts; a stage that was called
\* returns before anything else happens (no two stages are in progress
\* together); and no stage of an event runs after a later one.
C13_StageOrder ==
    \A m \in 1..Len(trace) :
        /\ trace[m].op = "sig.call" =>
              /\ m = Len(rawEvents) + 1
              /\ \A j \in 1..Len(rawEvents) :
                    trace[j].op = "parse" /\ trace[j].i = j
        /\ trace[m].op \in {"chain.call", "state.call"} =>
              \E n \in 1..(m - 1) : trace[n].op = "sig.ret"
        /\ trace[m].op = "state.call" =>
              \E n \in 1..(m - 1) :
                  trace[n].op = "chain.ret" /\ trace[n].i = trace[m].i
        /\ (trace[m].op \in {"sig.call", "chain.call", "state.call"}
               /\ m < Len(trace)) =>
              /\ trace[m + 1].op = ReturnOf(trace[m].op)
              /\ trace[m + 1].i = trace[m].i
        /\ \A n \in 1..(m - 1) :
              (trace[n].i = trace[m].i \/ trace[n].i = 0 \/ trace[m].i = 0) =>
                  Rank(trace[n].op) < Rank(trace[m].op)

\* Both events of a batch of two went through all four stages.
C13_Witness ==
    /\ ReturnedResults
    /\ Len(rawEvents) = 2
    /\ \A j \in 1..2 : Entries("state.ret", j) /= {}
    /\ \A j \in 1..2 : ~ParseFailed(j)

\* C14: every returned element is exactly one outcome: accepted (Event set,
\* Error nil) or rejected (Error set, Event nil); none has both fields set
\* and none is left at its zero value.
C14_ExactlyOneOutcome ==
    ReturnedResults =>
        \A j \in 1..Len(Out) :
            Out[j].Event /= NilHeadered <=> Out[j].Error = NilError

\* A returned list with an accepted and a rejected element.
C14_Witness ==
    /\ ReturnedResults
    /\ \E j \in 1..Len(Out) : Accepted(Out[j])
    /\ \E j \in 1..Len(Out) : Rejected(Out[j]) /\ Out[j].Event = NilHeadered

PerEventOps == {"chain.call", "chain.ret", "state.call", "state.ret"}

\* The auth-chain and state checks are made in input order, and a check of
\* one event has returned before a check of another is called.
InInputOrder ==
    \A m \in 1..Len(trace) : \A n \in 1..(m - 1) :
        (trace[n].op \in PerEventOps /\ trace[m].op \in PerEventOps) =>
            /\ trace[n].i <= trace[m].i
            /\ trace[n].op \in {"chain.call", "state.call"} =>
                  /\ trace[n + 1].op = ReturnOf(trace[n].op)
                  /\ trace[n + 1].i = trace[n].i

\* A step of a running call changes results at the index it handles only.
WritesOwnSlot ==
    pc \notin {"idle", "done"} =>
        \A j \in 1..Len(results) : results'[j] /= results[j] => j = i

\* C16: the events go through the auth-chain and state checks one after the
\* other in input order, the checks of different events never interleave,
\* and results[j] is written only by the step that handles index j.
C16_SequentialInOrder == []InInputOrder /\ [][WritesOwnSlot]_vars

\* Both events of a batch of two had their auth chain checked and were
\* written to their slots.
C16_Witness ==
    /\ ReturnedResults
    /\ Len(rawEvents) = 2
    /\ \A j \in 1..2 : Entries("chain.ret", j) /= {}
    /\ Out[1].Error = ChainError(ParsedEvent(rawEvents[1]))
    /\ Accepted(Out[2])

====
